---- MODULE Spec2Model ----
(***************************************************************************)
(* Verkle proof subsystem of go-verkle: proof assembly                     *)
(* (MakeVerkleMultiProof), serialization (SerializeProof /                 *)
(* DeserializeProof) and stateless reconstruction (TreeFromProof).         *)
(*                                                                         *)
(* src/proof_ipa.go is the current variant; src/unnamed/part_000 is the    *)
(* older variant of the same file (transcript label "multiproof", no key   *)
(* sorting, binary serializer).  Definitions named Legacy... model the     *)
(* older variant.                                                          *)
(*                                                                         *)
(* The tree module (GetProofItems / GetCommitmentsAlongPath, insertStem,   *)
(* insertValue, Get) is not part of the sources; it is modelled from the   *)
(* specification's sections 4.2, 4.3 and 4.6.                              *)
(***************************************************************************)
EXTENDS Integers, Sequences, FiniteSets, TLC

(***************************************************************************)
(* Program constants.                                                      *)
(***************************************************************************)
STEM_LENGTH == 31
KEY_LENGTH == 32
VALUE_LENGTH == 32
SUFFIX_SPLIT == 128
extStatusAbsentOther == 0
extStatusPresent == 1
extStatusAbsentEmpty == 2

(***************************************************************************)
(* Bounds of the model.                                                    *)
(***************************************************************************)
\* longest key list a caller passes to MakeVerkleMultiProof
MaxKeys == 2
\* most keys stored in the tree
MaxTreeKeys == 2

\* The keys of the model, as the leading bytes of the stem and the suffix;
\* every stem is its leading bytes followed by zero bytes up to STEM_LENGTH.
\* Four stems, two of them under each first byte, and one stem with a suffix
\* on each side of SUFFIX_SPLIT.
KeyHeads ==
  {<<<<0, 0>>, 0>>, <<<<0, 0>>, 128>>, <<<<0, 1>>, 0>>, <<<<1, 0>>, 0>>, <<<<1, 1>>, 0>>}

\* Go's nil slice / nil pointer.  A byte string never holds -1.
NIL == <<-1>>

Stem(h) == h \o [i \in 1..(STEM_LENGTH - Len(h)) |-> 0]
Keys == {Stem(h[1]) \o <<h[2]>> : h \in KeyHeads}

\* key[:31] and key[31]
StemOf(k) == SubSeq(k, 1, STEM_LENGTH)
SuffixOf(k) == k[KEY_LENGTH]
\* b[:n]
Prefix(b, n) == SubSeq(b, 1, n)
\* len() of a possibly nil slice
LenV(v) == IF v = NIL THEN 0 ELSE Len(v)

\* bytes.Compare(a, b) < 0; also Go's string order used by sort.Strings
BytesLess(a, b) ==
  LET n == IF Len(a) < Len(b) THEN Len(a) ELSE Len(b)
      d == {i \in 1..n : a[i] # b[i]}
  IN  IF d = {} THEN Len(a) < Len(b)
      ELSE LET m == CHOOSE i \in d : \A j \in d : i <= j IN a[m] < b[m]

\* insertion of x into the ascending list s, after the entries not above it
RECURSIVE InsertSorted(_, _)
InsertSorted(x, s) ==
  IF s = <<>> THEN <<x>>
  ELSE IF BytesLess(x, Head(s)) THEN <<x>> \o s
       ELSE <<Head(s)>> \o InsertSorted(x, Tail(s))

\* sort.Sort(keylist(keys)): the keys in ascending byte order
RECURSIVE SortKeys(_)
SortKeys(s) ==
  IF s = <<>> THEN <<>> ELSE InsertSorted(Head(s), SortKeys(Tail(s)))

\* the elements of a set of byte strings as an ascending list (sort.Strings
\* over the keys of a map)
RECURSIVE SortStrings(_)
SortStrings(S) ==
  IF S = {} THEN <<>>
  ELSE LET m == CHOOSE x \in S : \A y \in S : y = x \/ BytesLess(x, y)
       IN  <<m>> \o SortStrings(S \ {m})

Range(s) == {s[i] : i \in 1..Len(s)}

(***************************************************************************)
(* The tree.  A tree is the map from its keys to their values; its shape   *)
(* follows from the stems it holds: the root is an internal node, a path   *)
(* shared by two or more stems is an internal node, and a stem sits in a   *)
(* leaf (extension) node at the shortest path below an internal node that  *)
(* no other stem shares.                                                   *)
(***************************************************************************)
\* the 32-byte value stored under key k
TreeValue(k) ==
  [i \in 1..VALUE_LENGTH |->
     IF i = 1 THEN 1 + k[1] ELSE IF i = 2 THEN 1 + k[2]
     ELSE IF i = 3 THEN 1 + (k[KEY_LENGTH] \div SUFFIX_SPLIT) ELSE 7]

Trees ==
  {[k \in D |-> TreeValue(k)] :
     D \in {D \in SUBSET Keys : Cardinality(D) <= MaxTreeKeys}}

TreeStems(t) == {StemOf(k) : k \in DOMAIN t}
StemsUnder(t, p) == {s \in TreeStems(t) : Prefix(s, Len(p)) = p}
IsInternal(t, p) == p = <<>> \/ Cardinality(StemsUnder(t, p)) >= 2

\* root.Get(key): the stored value, nil when there is none
TreeGet(t, k) == IF k \in DOMAIN t THEN t[k] ELSE NIL

\* commitment of the node at path p (a group element, opaque)
Commitment(t, p) == [at |-> p]
\* a nil *Point
NilPoint == [at |-> NIL]

\* number of stem bytes consumed before the walk for key k stops
WalkDepth(t, k) ==
  CHOOSE d \in 1..STEM_LENGTH :
    /\ ~IsInternal(t, Prefix(k, d))
    /\ \A e \in 1..(d - 1) : IsInternal(t, Prefix(k, e))

\* GetCommitmentsAlongPath(key): proof elements, extension status, and the
\* proof-of-absence stem (nil when there is none)
GetCommitmentsAlongPath(t, k) ==
  LET d == WalkDepth(t, k)
      p == Prefix(k, d)
      under == StemsUnder(t, p)
      st == IF under = {} THEN extStatusAbsentEmpty
            ELSE IF under = {StemOf(k)} THEN extStatusPresent
            ELSE extStatusAbsentOther
      group == p \o <<IF SuffixOf(k) < SUFFIX_SPLIT THEN 2 ELSE 3>>
      inner == {Prefix(k, e) : e \in 0..(d - 1)}
      paths == inner \cup (IF st = extStatusAbsentEmpty THEN {} ELSE {p})
                     \cup (IF st = extStatusPresent THEN {group} ELSE {})
      opened == [e \in 1..d |-> [path |-> Prefix(k, e - 1), z |-> k[e]]]
                \o (IF st = extStatusAbsentEmpty THEN <<>>
                    ELSE <<[path |-> p, z |-> 0], [path |-> p, z |-> 1]>>)
                \o (IF st = extStatusPresent
                    THEN <<[path |-> p, z |-> group[d + 1]],
                           [path |-> group, z |-> 2 * (SuffixOf(k) % SUFFIX_SPLIT)],
                           [path |-> group, z |-> 2 * (SuffixOf(k) % SUFFIX_SPLIT) + 1]>>
                    ELSE <<>>)
  IN  [ByPath |-> [q \in paths |-> Commitment(t, q)],
       opened |-> opened,
       extStatus |-> d * 8 + st,
       alt |-> IF st = extStatusAbsentOther THEN CHOOSE s \in under : TRUE ELSE NIL]

(***************************************************************************)
(* ProofElements and the proof builder.                                    *)
(***************************************************************************)
EmptyProofElements == [ByPath |-> <<>>, opened |-> <<>>]

\* ProofElements.Merge: the quadruples are concatenated, a path already in
\* ByPath keeps its commitment
Merge(pe, other) ==
  [ByPath |-> [q \in (DOMAIN pe.ByPath) \cup (DOMAIN other.ByPath) |->
                 IF q \in DOMAIN pe.ByPath THEN pe.ByPath[q] ELSE other.ByPath[q]],
   opened |-> pe.opened \o other.opened]

\* the loop of the older GetCommitmentsForMultiproof over the keys: every
\* key is walked, its elements merged, its extension status appended, and
\* its proof-of-absence stem, if any
RECURSIVE WalkKeys(_, _, _)
WalkKeys(t, keys, acc) ==
  IF keys = <<>> THEN acc
  ELSE LET w == GetCommitmentsAlongPath(t, Head(keys))
       IN  WalkKeys(t, Tail(keys),
             [pe |-> Merge(acc.pe, [ByPath |-> w.ByPath, opened |-> w.opened]),
              es |-> Append(acc.es, w.extStatus),
              poas |-> IF w.alt # NIL THEN Append(acc.poas, w.alt) ELSE acc.poas])

\* older variant: GetCommitmentsForMultiproof walks the keys as given
LegacyGetCommitmentsForMultiproof(t, keys) ==
  WalkKeys(t, keys, [pe |-> EmptyProofElements, es |-> <<>>, poas |-> <<>>])

\* the walk of GetProofItems from key i on: every key is walked and its
\* elements merged; the extension status and the proof-of-absence stem are
\* recorded once per stem, with the first key of the stem
RECURSIVE ProofItemsFrom(_, _, _, _)
ProofItemsFrom(t, keys, i, acc) ==
  IF i > Len(keys) THEN acc
  ELSE LET w == GetCommitmentsAlongPath(t, keys[i])
           first == i = 1 \/ StemOf(keys[i - 1]) # StemOf(keys[i])
       IN  ProofItemsFrom(t, keys, i + 1,
             [pe |-> Merge(acc.pe, [ByPath |-> w.ByPath, opened |-> w.opened]),
              es |-> IF first THEN Append(acc.es, w.extStatus) ELSE acc.es,
              poas |-> IF first /\ w.alt # NIL THEN Append(acc.poas, w.alt)
                       ELSE acc.poas])

\* root.GetProofItems(sortedKeys): the path walk bundled
GetProofItems(t, keys) ==
  ProofItemsFrom(t, keys, 1, [pe |-> EmptyProofElements, es |-> <<>>, poas |-> <<>>])

\* a key list that sort.Sort never reached
LeftAsGiven(keys) == keys

\* the key list after sort.Sort, which sorts the caller's slice in place
SortedInPlace(keys) == SortKeys(keys)

\* GetCommitmentsForMultiproof: sort, then walk
GetCommitmentsForMultiproof(t, keys) == GetProofItems(t, SortedInPlace(keys))

\* keyvals[string(k)]: nil when the map has no entry
Lookup(kv, k) == IF k \in DOMAIN kv THEN kv[k] ELSE NIL

\* ipa.CreateMultiProof over (Cis, Fis, Zis) with a transcript of the given
\* label: D, the eight rounds of the IPA and its final scalar (opaque)
IPA_PROOF_DEPTH == 8
CreateMultiProof(label, opened) ==
  [D |-> [tr |-> label, n |-> Len(opened)],
   IPA |-> [L |-> [i \in 1..IPA_PROOF_DEPTH |-> [tr |-> label, n |-> i]],
            R |-> [i \in 1..IPA_PROOF_DEPTH |-> [tr |-> label, n |-> i + IPA_PROOF_DEPTH]],
            A_scalar |-> [tr |-> label, n |-> 0]]]

\* the paths of ByPath that make the commitment vector: every path but the
\* root's, in string order
ProofPaths(ByPath) == SortStrings({p \in DOMAIN ByPath : Len(p) > 0})

\* a commitment vector with a slot for the root's commitment, which is never
\* filled
CommitmentVectorRootCounted(ByPath) ==
  LET n == Cardinality(DOMAIN ByPath)
      paths == ProofPaths(ByPath)
  IN  [panic |-> FALSE,
       cis |-> [i \in 1..n |-> IF i <= Len(paths) THEN ByPath[paths[i]] ELSE NilPoint]]

\* cis: make([]*Point, len(ByPath)-1), filled in the order of the sorted
\* paths.  The run panics when the length is negative (makeslice) or an
\* index is out of range.
CommitmentVector(ByPath) ==
  LET n == Cardinality(DOMAIN ByPath) - 1
      paths == ProofPaths(ByPath)
  IN  IF n < 0 \/ Len(paths) > n THEN [panic |-> TRUE, cis |-> <<>>]
      ELSE [panic |-> FALSE,
            cis |-> [i \in 1..n |-> IF i <= Len(paths) THEN ByPath[paths[i]] ELSE NilPoint]]

Cis(t, opened) == [i \in 1..Len(opened) |-> Commitment(t, opened[i].path)]
Zis(opened) == [i \in 1..Len(opened) |-> opened[i].z]
Yis(opened) == [i \in 1..Len(opened) |-> [f |-> opened[i].path, z |-> opened[i].z]]

\* a nil *Proof
NilProof == [nil |-> TRUE]

\* a nil slice of points, indices or scalars
NilVector == <<>>

NoResult ==
  [outcome |-> "error", proof |-> NilProof, Cis |-> NilVector, Zis |-> NilVector,
   Yis |-> NilVector, calls |-> <<>>, keys |-> <<>>]

\* MakeVerkleMultiProof without its check of the key list
MakeVerkleMultiProofUnguarded(t, keys, keyvals) ==
  LET sorted == SortedInPlace(keys)
      w == GetCommitmentsForMultiproof(t, keys)
      cv == CommitmentVector(w.pe.ByPath)
      calls == <<"Commit", "GetProofItems", "CreateMultiProof">>
  IN  IF cv.panic
      THEN [NoResult EXCEPT !.outcome = "panic", !.calls = calls, !.keys = sorted]
      ELSE [outcome |-> "ok",
            proof |-> [Multipoint |-> CreateMultiProof("vt", w.pe.opened),
                       ExtStatus |-> w.es,
                       Cs |-> cv.cis,
                       PoaStems |-> w.poas,
                       Keys |-> sorted,
                       Values |-> [i \in 1..Len(sorted) |-> Lookup(keyvals, sorted[i])]],
            Cis |-> Cis(t, w.pe.opened),
            Zis |-> Zis(w.pe.opened),
            Yis |-> Yis(w.pe.opened),
            calls |-> calls,
            keys |-> sorted]

\* MakeVerkleMultiProof(root, keys, keyvals) of proof_ipa.go.  calls lists
\* the calls into the tree module and the opening primitive, keys is the
\* caller's slice as the call leaves it.
MakeVerkleMultiProof(t, keys, keyvals) ==
  IF Len(keys) = 0 THEN NoResult
  ELSE
    LET sorted == SortedInPlace(keys)
        w == GetCommitmentsForMultiproof(t, keys)
        vals == [i \in 1..Len(sorted) |-> Lookup(keyvals, sorted[i])]
        cv == CommitmentVector(w.pe.ByPath)
        calls == <<"Commit", "GetProofItems", "CreateMultiProof">>
    IN  IF cv.panic
        THEN [NoResult EXCEPT !.outcome = "panic", !.calls = calls, !.keys = sorted]
        ELSE [outcome |-> "ok",
              proof |-> [Multipoint |-> CreateMultiProof("vt", w.pe.opened),
                         ExtStatus |-> w.es,
                         Cs |-> cv.cis,
                         PoaStems |-> w.poas,
                         Keys |-> sorted,
                         Values |-> vals],
              Cis |-> Cis(t, w.pe.opened),
              Zis |-> Zis(w.pe.opened),
              Yis |-> Yis(w.pe.opened),
              calls |-> calls,
              keys |-> sorted]

\* MakeVerkleMultiProof(root, keys) of the older variant: no check of the
\* key list, no sort, the values are read from the tree
LegacyMakeVerkleMultiProof(t, keys) ==
  LET w == LegacyGetCommitmentsForMultiproof(t, keys)
      vals == [i \in 1..Len(keys) |-> TreeGet(t, keys[i])]
      cv == CommitmentVector(w.pe.ByPath)
      calls == <<"ComputeCommitment">>
               \o [i \in 1..Len(keys) |-> "GetCommitmentsAlongPath"]
               \o <<"CreateMultiProof">>
  IN  IF cv.panic
      THEN [NoResult EXCEPT !.outcome = "panic", !.calls = calls, !.keys = keys]
      ELSE [outcome |-> "ok",
            proof |-> [Multipoint |-> CreateMultiProof("multiproof", w.pe.opened),
                       ExtStatus |-> w.es,
                       Cs |-> cv.cis,
                       PoaStems |-> w.poas,
                       Keys |-> keys,
                       Values |-> vals],
            Cis |-> Cis(t, w.pe.opened),
            Zis |-> Zis(w.pe.opened),
            Yis |-> Yis(w.pe.opened),
            calls |-> calls,
            keys |-> keys]

(***************************************************************************)
(* Serialization.                                                          *)
(***************************************************************************)
\* copy(dst[:], src) into a zeroed array of n bytes
CopyInto(n, src) ==
  [i \in 1..n |-> IF src # NIL /\ i <= Len(src) THEN src[i] ELSE 0]

\* Point.Bytes() / Fr.Bytes(): the canonical encoding (opaque, one to one)
Bytes(c) == [enc |-> c]
\* 32 bytes that are no encoding of a group element
InvalidBytes == [enc |-> [at |-> <<-2>>]]
\* whether a 32-byte array decodes to a group element
Decodable(b) == b # InvalidBytes
\* Point.SetBytesTrusted / SetBytes
SetBytes(b) == b.enc

\* the SuffixStateDiff that SerializeProof appends for (key, value); the
\* run panics on a value longer than 32 bytes (aligned[:valueLen])
SuffixDiffOf(key, value) ==
  LET valueLen == LenV(value)
  IN  IF valueLen = 0 THEN [panic |-> FALSE,
                             diff |-> [Suffix |-> SuffixOf(key), CurrentValue |-> NIL]]
      ELSE IF valueLen = VALUE_LENGTH
           THEN [panic |-> FALSE,
                 diff |-> [Suffix |-> SuffixOf(key), CurrentValue |-> value]]
      ELSE IF valueLen > VALUE_LENGTH
           THEN [panic |-> TRUE,
                 diff |-> [Suffix |-> SuffixOf(key), CurrentValue |-> NIL]]
      ELSE [panic |-> FALSE,
            diff |-> [Suffix |-> SuffixOf(key),
                      CurrentValue |-> CopyInto(VALUE_LENGTH, value)]]

\* a loop over proof.Keys that opens a StemStateDiff for every key
StateDiffPerKey(proof, i, sd) ==
  LET e(j) == SuffixDiffOf(proof.Keys[j], proof.Values[j])
      n == IF i > Len(proof.Keys) THEN 0 ELSE Len(proof.Keys) - i + 1
  IN  [panic |-> \E j \in i..Len(proof.Keys) : e(j).panic,
       statediff |-> sd \o [m \in 1..n |->
                              [Stem |-> StemOf(proof.Keys[i + m - 1]),
                               SuffixDiffs |-> <<e(i + m - 1).diff>>]]]

\* the loop of SerializeProof over proof.Keys from index i on; sd is the
\* state diff built so far, whose last entry is the one stemdiff points to
RECURSIVE StateDiffFrom(_, _, _)
StateDiffFrom(proof, i, sd) ==
  IF i > Len(proof.Keys) THEN [panic |-> FALSE, statediff |-> sd]
  ELSE
    LET key == proof.Keys[i]
        fresh == sd = <<>> \/ sd[Len(sd)].Stem # StemOf(key)
        sd1 == IF fresh THEN Append(sd, [Stem |-> StemOf(key), SuffixDiffs |-> <<>>])
               ELSE sd
        e == SuffixDiffOf(key, proof.Values[i])
        n == Len(sd1)
    IN  IF e.panic THEN [panic |-> TRUE, statediff |-> sd1]
        ELSE StateDiffFrom(proof, i + 1,
               [sd1 EXCEPT ![n].SuffixDiffs = Append(@, e.diff)])

\* SerializeProof(proof): the VerkleProof and the StateDiff
SerializeProof(proof) ==
  LET s == StateDiffFrom(proof, 1, <<>>)
  IN  IF (\E i \in 1..Len(proof.Cs) : proof.Cs[i] = NilPoint) \/ s.panic
      THEN [outcome |-> "panic", vp |-> NIL, statediff |-> NIL]
      ELSE [outcome |-> "ok",
            vp |-> [OtherStems |-> [i \in 1..Len(proof.PoaStems) |->
                                      CopyInto(STEM_LENGTH, proof.PoaStems[i])],
                    DepthExtensionPresent |-> proof.ExtStatus,
                    CommitmentsByPath |-> [i \in 1..Len(proof.Cs) |-> Bytes(proof.Cs[i])],
                    D |-> Bytes(proof.Multipoint.D),
                    IPAProof |->
                      [CL |-> [i \in 1..IPA_PROOF_DEPTH |-> Bytes(proof.Multipoint.IPA.L[i])],
                       CR |-> [i \in 1..IPA_PROOF_DEPTH |-> Bytes(proof.Multipoint.IPA.R[i])],
                       FinalEvaluation |-> Bytes(proof.Multipoint.IPA.A_scalar)]],
            statediff |-> s.statediff]

\* the keys and values of a state diff, group after group
RECURSIVE KeysValuesOf(_)
KeysValuesOf(statediff) ==
  IF statediff = <<>> THEN [keys |-> <<>>, values |-> <<>>]
  ELSE LET g == Head(statediff)
           rest == KeysValuesOf(Tail(statediff))
       IN  [keys |-> [i \in 1..Len(g.SuffixDiffs) |->
                        CopyInto(STEM_LENGTH, g.Stem) \o <<g.SuffixDiffs[i].Suffix>>]
                     \o rest.keys,
            values |-> [i \in 1..Len(g.SuffixDiffs) |-> g.SuffixDiffs[i].CurrentValue]
                       \o rest.values]

\* poaStems[i] = poaStem[:] inside "for i, poaStem := range vp.OtherStems".
\* With one loop variable for the whole loop (Go before 1.22) every slice
\* refers to that variable, which holds the last stem when the loop ends;
\* with one variable per iteration (Go 1.22 on) each slice has its own.
PoaStemsOf(otherStems, loopvar) ==
  [i \in 1..Len(otherStems) |->
     IF loopvar = "per-loop" THEN otherStems[Len(otherStems)] ELSE otherStems[i]]

LoopVarSemantics == {"per-loop", "per-iteration"}

\* DeserializeProof(vp, statediff)
DeserializeProof(vp, statediff, loopvar) ==
  IF \E i \in 1..Len(vp.CommitmentsByPath) : ~Decodable(vp.CommitmentsByPath[i])
  THEN [outcome |-> "error", proof |-> NilProof]
  ELSE
    LET kv == KeysValuesOf(statediff)
    IN  [outcome |-> "ok",
         proof |-> [Multipoint |->
                      [D |-> SetBytes(vp.D),
                       IPA |-> [L |-> [i \in 1..IPA_PROOF_DEPTH |-> SetBytes(vp.IPAProof.CL[i])],
                                R |-> [i \in 1..IPA_PROOF_DEPTH |-> SetBytes(vp.IPAProof.CR[i])],
                                A_scalar |-> SetBytes(vp.IPAProof.FinalEvaluation)]],
                    ExtStatus |-> vp.DepthExtensionPresent,
                    Cs |-> [i \in 1..Len(vp.CommitmentsByPath) |->
                              SetBytes(vp.CommitmentsByPath[i])],
                    PoaStems |-> PoaStemsOf(vp.OtherStems, loopvar),
                    Keys |-> kv.keys,
                    Values |-> kv.values]]

(***************************************************************************)
(* Stateless reconstruction.                                               *)
(***************************************************************************)
\* the stems of the keys, a stem listed once per run of keys that share it
RECURSIVE StemsOfKeys(_, _)
StemsOfKeys(keys, stems) ==
  IF keys = <<>> THEN stems
  ELSE StemsOfKeys(Tail(keys),
         IF stems = <<>> \/ stems[Len(stems)] # StemOf(Head(keys))
         THEN Append(stems, StemOf(Head(keys))) ELSE stems)

\* the stemInfo of an extension status that is neither absent-empty nor
\* absent-other
PresentStemInfo(proof, depth, stemType, stemPath) ==
  LET hit == {i \in 1..Len(proof.Keys) :
                Prefix(proof.Keys[i], Len(stemPath)) = stemPath /\ proof.Values[i] # NIL}
      last(x) == CHOOSE i \in hit :
                   /\ SuffixOf(proof.Keys[i]) = x
                   /\ \A j \in hit : SuffixOf(proof.Keys[j]) = x => j <= i
      top == CHOOSE i \in hit : \A j \in hit : j <= i
  IN  [depth |-> depth, stemType |-> stemType,
       has_c1 |-> \E i \in hit : SuffixOf(proof.Keys[i]) < SUFFIX_SPLIT,
       has_c2 |-> \E i \in hit : SuffixOf(proof.Keys[i]) >= SUFFIX_SPLIT,
       values |-> [x \in {SuffixOf(proof.Keys[i]) : i \in hit} |-> proof.Values[last(x)]],
       stem |-> IF hit = {} THEN NIL ELSE StemOf(proof.Keys[top])]

\* the stem cursor after an extension status of the given path: one past the
\* current stem, then past every stem that starts with the path
RECURSIVE SkipStems(_, _, _)
SkipStems(stems, stemIndex, path) ==
  IF stemIndex <= Len(stems) /\ Prefix(stems[stemIndex], Len(path)) = path
  THEN SkipStems(stems, stemIndex + 1, path)
  ELSE stemIndex

\* the loop of TreeFromProof over proof.ExtStatus from index i on.  st holds
\* stemIndex (counted from 1), info, paths and poas; the run panics when
\* stems or poas is indexed past its end.
RECURSIVE AssignStems(_, _, _, _)
AssignStems(proof, stems, i, st) ==
  IF i > Len(proof.ExtStatus) THEN st
  ELSE
    LET es == proof.ExtStatus[i]
        depth == es \div 8
        stemType == es % 4
    IN  IF st.stemIndex > Len(stems) THEN [st EXCEPT !.panic = "stems"]
        ELSE IF stemType = extStatusAbsentOther /\ st.poas = <<>>
             THEN [st EXCEPT !.panic = "poas"]
        ELSE
          LET path == Prefix(stems[st.stemIndex], depth)
              si == IF stemType = extStatusAbsentEmpty
                    THEN [depth |-> depth, stemType |-> stemType, has_c1 |-> FALSE,
                          has_c2 |-> FALSE, values |-> <<>>, stem |-> NIL]
                    ELSE IF stemType = extStatusAbsentOther
                    THEN [depth |-> depth, stemType |-> stemType, has_c1 |-> FALSE,
                          has_c2 |-> FALSE, values |-> <<>>, stem |-> Head(st.poas)]
                    ELSE PresentStemInfo(proof, depth, stemType, path)
          IN  AssignStems(proof, stems, i + 1,
                [stemIndex |-> SkipStems(stems, st.stemIndex + 1, path),
                 info |-> [q \in (DOMAIN st.info) \cup {path} |->
                             IF q = path THEN si ELSE st.info[q]],
                 paths |-> Append(st.paths, path),
                 poas |-> IF stemType = extStatusAbsentOther THEN Tail(st.poas)
                          ELSE st.poas,
                 panic |-> "no"])

\* NewStatelessWithCommitment(rootC): a tree of the root alone
NewStatelessWithCommitment(rootC) ==
  [p \in {<<>>} |-> [kind |-> "internal", commitment |-> rootC, stem |-> NIL,
                     c1 |-> NilPoint, c2 |-> NilPoint, values |-> <<>>]]

\* root.insertStem(path, info, comms): the internal nodes along the path
\* that are not there yet take one commitment each, in order; then the node
\* at the path is installed: nothing for an empty slot, an extension for
\* another stem, or a leaf with its C1 and C2 as the info has them.  The
\* call fails when the commitments run out or the path is taken.
InsertStem(root, path, si, comms) ==
  LET d == Len(path)
      missing == {j \in 1..(d - 1) : Prefix(path, j) \notin DOMAIN root}
      blocked == \E j \in 1..(d - 1) :
                   /\ Prefix(path, j) \in DOMAIN root
                   /\ root[Prefix(path, j)].kind # "internal"
      nInner == Cardinality(missing)
      nLeaf == IF si.stemType = extStatusAbsentEmpty THEN 0
               ELSE IF si.stemType = extStatusAbsentOther THEN 1
               ELSE 1 + (IF si.has_c1 THEN 1 ELSE 0) + (IF si.has_c2 THEN 1 ELSE 0)
      rank(j) == Cardinality({e \in missing : e <= j})
      inner == [q \in {Prefix(path, j) : j \in missing} |->
                  [kind |-> "internal", commitment |-> comms[rank(Len(q))], stem |-> NIL,
                   c1 |-> NilPoint, c2 |-> NilPoint, values |-> <<>>]]
      leaf == [kind |-> IF si.stemType = extStatusAbsentOther THEN "other" ELSE "leaf",
               commitment |-> comms[nInner + 1],
               stem |-> si.stem,
               c1 |-> IF si.stemType # extStatusAbsentOther /\ si.has_c1
                      THEN comms[nInner + 2] ELSE NilPoint,
               c2 |-> IF si.stemType # extStatusAbsentOther /\ si.has_c2
                      THEN comms[nInner + nLeaf] ELSE NilPoint,
               values |-> <<>>]
      added == IF si.stemType = extStatusAbsentEmpty THEN {} ELSE {path}
  IN  IF \/ d = 0
         \/ blocked
         \/ path \in DOMAIN root
         \/ si.stemType \notin {extStatusAbsentEmpty, extStatusAbsentOther, extStatusPresent}
         \/ nInner + nLeaf > Len(comms)
      THEN [err |-> TRUE, root |-> root, comms |-> comms]
      ELSE [err |-> FALSE,
            root |-> [q \in (DOMAIN root) \cup (DOMAIN inner) \cup added |->
                        IF q \in DOMAIN root THEN root[q]
                        ELSE IF q \in DOMAIN inner THEN inner[q] ELSE leaf],
            comms |-> SubSeq(comms, nInner + nLeaf + 1, Len(comms))]

\* the path of the leaf or extension that a key leads to in a stateless
\* tree; the empty set when the key leads to none
LeafPaths(root, key) ==
  {Prefix(key, j) : j \in {j \in 1..STEM_LENGTH :
      Prefix(key, j) \in DOMAIN root /\ root[Prefix(key, j)].kind # "internal"}}

\* root.insertValue(key, value): stores the value in the leaf of the key's
\* stem; fails when the key leads to no leaf of its stem
InsertValue(root, key, value) ==
  LET at == LeafPaths(root, key)
      p == CHOOSE q \in at : TRUE
  IN  IF at = {} \/ root[p].kind # "leaf" \/ root[p].stem # StemOf(key)
      THEN [err |-> TRUE, root |-> root]
      ELSE [err |-> FALSE,
            root |-> [root EXCEPT ![p].values =
                        [x \in (DOMAIN @) \cup {SuffixOf(key)} |->
                           IF x = SuffixOf(key) THEN value ELSE @[x]]]]

\* Get(key) on a stateless tree: nil when the tree holds no value
StatelessGet(root, key) ==
  LET at == {q \in LeafPaths(root, key) :
               /\ root[q].kind = "leaf"
               /\ root[q].stem = StemOf(key)
               /\ SuffixOf(key) \in DOMAIN root[q].values}
  IN  IF at = {} THEN NIL ELSE root[CHOOSE q \in at : TRUE].values[SuffixOf(key)]

\* the loop of TreeFromProof over paths
RECURSIVE InsertStems(_, _, _, _)
InsertStems(root, paths, info, comms) ==
  IF paths = <<>> THEN [err |-> FALSE, root |-> root, comms |-> comms]
  ELSE LET r == InsertStem(root, Head(paths), info[Head(paths)], comms)
       IN  IF r.err THEN r ELSE InsertStems(r.root, Tail(paths), info, r.comms)

\* the loop of TreeFromProof over proof.Keys from index i on; inserted lists
\* the keys insertValue was called with
RECURSIVE InsertValues(_, _, _, _)
InsertValues(root, proof, i, inserted) ==
  IF i > Len(proof.Keys) THEN [err |-> FALSE, root |-> root, inserted |-> inserted]
  ELSE IF LenV(proof.Values[i]) = 0 THEN InsertValues(root, proof, i + 1, inserted)
  ELSE LET r == InsertValue(root, proof.Keys[i], proof.Values[i])
       IN  IF r.err
           THEN [err |-> TRUE, root |-> r.root, inserted |-> Append(inserted, proof.Keys[i])]
           ELSE InsertValues(r.root, proof, i + 1, Append(inserted, proof.Keys[i]))

NoTree == [outcome |-> "panic", root |-> NIL, leftover |-> 0, consumed |-> 0,
           inserted |-> <<>>]

\* TreeFromProof(proof, rootC).  leftover is what remains of comms when the
\* stems are inserted, consumed is what the insertions took.
TreeFromProof(proof, rootC) ==
  LET stems == StemsOfKeys(proof.Keys, <<>>)
      a == AssignStems(proof, stems, 1,
             [stemIndex |-> 1, info |-> <<>>, paths |-> <<>>,
              poas |-> proof.PoaStems, panic |-> "no"])
  IN  IF a.panic # "no" THEN NoTree
      ELSE
        LET s == InsertStems(NewStatelessWithCommitment(rootC), a.paths, a.info, proof.Cs)
        IN  IF s.err THEN [NoTree EXCEPT !.outcome = "error"]
            ELSE
              LET v == InsertValues(s.root, proof, 1, <<>>)
              IN  IF v.err
                  THEN [NoTree EXCEPT !.outcome = "error", !.inserted = v.inserted]
                  ELSE [outcome |-> "ok", root |-> v.root,
                        leftover |-> Len(s.comms),
                        consumed |-> Len(proof.Cs) - Len(s.comms),
                        inserted |-> v.inserted]

(***************************************************************************)
(* The program: a tree, a caller that asks for a proof of a key list, the  *)
(* proof on its way to a verifier, and the verifier's stateless tree.      *)
(***************************************************************************)
VARIABLES
  tree,      \* the tree the proofs are built from
  pc,        \* what has happened last
  input,     \* the key list as the caller wrote it
  keyvals,   \* the caller's key -> value map
  ret,       \* what MakeVerkleMultiProof returned
  sent,      \* the proof given to the last SerializeProof
  wire,      \* the VerkleProof and StateDiff of the last SerializeProof
  tampered,  \* whether the wire form was changed on the way
  cur,       \* the proof in hand: built or deserialized
  rebuilt    \* what TreeFromProof returned

vars == <<tree, pc, input, keyvals, ret, sent, wire, tampered, cur, rebuilt>>

\* the key lists a caller may pass: any order, repeats allowed
KeyLists == UNION {[1..n -> Keys] : n \in 0..MaxKeys}

\* the maps a caller may pass: the tree's own contents, or the same with
\* values that are not 32 bytes long (short, long, empty but not nil)
Profiles == {"valid", "short", "long", "empty"}
CallerMap(t, pr) ==
  [k \in DOMAIN t |->
     IF pr = "short" THEN Prefix(t[k], 3)
     ELSE IF pr = "long" THEN t[k] \o <<9>>
     ELSE IF pr = "empty" THEN <<>>
     ELSE t[k]]
CallerMaps(t) == {CallerMap(t, pr) : pr \in Profiles}

NoWire == [outcome |-> "none", vp |-> NIL, statediff |-> NIL]

Init ==
  /\ tree \in Trees
  /\ pc = "idle"
  /\ input = <<>>
  /\ keyvals = <<>>
  /\ ret = [NoResult EXCEPT !.outcome = "none"]
  /\ sent = NilProof
  /\ wire = NoWire
  /\ tampered = FALSE
  /\ cur = NilProof
  /\ rebuilt = [NoTree EXCEPT !.outcome = "none"]

\* a caller builds a proof with proof_ipa.go's MakeVerkleMultiProof
CallMakeVerkleMultiProof ==
  /\ pc = "idle"
  /\ \E keys \in KeyLists, kv \in CallerMaps(tree) :
       LET r == MakeVerkleMultiProof(tree, keys, kv)
       IN  /\ input' = keys
           /\ keyvals' = kv
           /\ ret' = r
           /\ cur' = r.proof
           /\ pc' = IF r.outcome = "ok" THEN "made" ELSE "failed"
  /\ UNCHANGED <<tree, sent, wire, tampered, rebuilt>>

\* a caller builds a proof with the older variant's MakeVerkleMultiProof
CallLegacyMakeVerkleMultiProof ==
  /\ pc = "idle"
  /\ \E keys \in KeyLists :
       LET r == LegacyMakeVerkleMultiProof(tree, keys)
       IN  /\ input' = keys
           /\ ret' = r
           /\ pc' = IF r.outcome = "ok" THEN "legacy-made" ELSE "legacy-failed"
  /\ UNCHANGED <<tree, keyvals, sent, wire, tampered, cur, rebuilt>>

\* the proof in hand is serialized
CallSerializeProof ==
  /\ pc \in {"made", "deserialized"}
  /\ sent' = cur
  /\ wire' = SerializeProof(cur)
  /\ pc' = IF wire'.outcome # "ok" THEN "failed"
           ELSE IF pc = "made" THEN "serialized" ELSE "reserialized"
  /\ UNCHANGED <<tree, input, keyvals, ret, tampered, cur, rebuilt>>

\* what a peer may do to the wire form before the verifier reads it
TamperKinds ==
  {"extra-commitment", "drop-commitment", "drop-other-stem", "extra-ext-status",
   "corrupt-commitment", "replay-stem-diff"}
DropLast(s) == SubSeq(s, 1, Len(s) - 1)
TamperedWire(w, kind) ==
  LET vp == w.vp
  IN  IF kind = "extra-commitment"
      THEN [w EXCEPT !.vp.CommitmentsByPath = Append(@, Bytes([at |-> <<255>>]))]
      ELSE IF kind = "drop-commitment"
      THEN [w EXCEPT !.vp.CommitmentsByPath = DropLast(@)]
      ELSE IF kind = "drop-other-stem"
      THEN [w EXCEPT !.vp.OtherStems = DropLast(@)]
      ELSE IF kind = "extra-ext-status"
      THEN [w EXCEPT !.vp.DepthExtensionPresent = Append(@, @[Len(@)])]
      ELSE IF kind = "corrupt-commitment"
      THEN [w EXCEPT !.vp.CommitmentsByPath[1] = InvalidBytes]
      ELSE [w EXCEPT !.statediff = Append(@, @[1])]
Tamper ==
  /\ pc = "serialized"
  /\ ~tampered
  /\ \E kind \in TamperKinds :
       /\ kind \in {"drop-commitment", "corrupt-commitment"}
            => wire.vp.CommitmentsByPath # <<>>
       /\ kind = "drop-other-stem" => wire.vp.OtherStems # <<>>
       /\ kind = "extra-ext-status" => wire.vp.DepthExtensionPresent # <<>>
       /\ kind = "replay-stem-diff" => wire.statediff # <<>>
       /\ wire' = TamperedWire(wire, kind)
  /\ tampered' = TRUE
  /\ UNCHANGED <<tree, pc, input, keyvals, ret, sent, cur, rebuilt>>

\* the verifier deserializes the wire form
CallDeserializeProof ==
  /\ pc = "serialized"
  /\ \E loopvar \in LoopVarSemantics :
       LET r == DeserializeProof(wire.vp, wire.statediff, loopvar)
       IN  /\ cur' = r.proof
           /\ pc' = IF r.outcome = "ok" THEN "deserialized" ELSE "failed"
  /\ UNCHANGED <<tree, input, keyvals, ret, sent, wire, tampered, rebuilt>>

\* the stateless tree is rebuilt from the proof in hand
CallTreeFromProof ==
  /\ pc \in {"made", "deserialized"}
  /\ rebuilt' = TreeFromProof(cur, Commitment(tree, <<>>))
  /\ pc' = "rebuilt"
  /\ UNCHANGED <<tree, input, keyvals, ret, sent, wire, tampered, cur>>

Next ==
  \/ CallMakeVerkleMultiProof
  \/ CallLegacyMakeVerkleMultiProof
  \/ CallSerializeProof
  \/ Tamper
  \/ CallDeserializeProof
  \/ CallTreeFromProof

Spec == Init /\ [][Next]_vars

(***************************************************************************)
(* Properties.                                                             *)
(***************************************************************************)
\* MakeVerkleMultiProof of proof_ipa.go has returned
Built == pc \notin {"idle", "legacy-made", "legacy-failed"}
\* the older variant's MakeVerkleMultiProof has returned
LegacyBuilt == pc \in {"legacy-made", "legacy-failed"}

ValidMap == keyvals = tree
\* wire is what SerializeProof returned for sent, untouched
Serialized ==
  /\ pc = "reserialized" \/ (pc = "serialized" /\ ~tampered)
  /\ wire.outcome = "ok"
\* the proof in hand came back from the wire form of the built proof
RoundTripped == pc = "deserialized" /\ ~tampered /\ sent = ret.proof

\* C2: a proof built from a valid tree and key list comes back from
\* DeserializeProof(SerializeProof(p)) with the same ExtStatus, the same
\* PoaStems (each stem its own original), the same Keys and the same Values.
C2_RoundTrip ==
  (RoundTripped /\ ValidMap) =>
    /\ cur.ExtStatus = sent.ExtStatus
    /\ cur.PoaStems = sent.PoaStems
    /\ cur.Keys = sent.Keys
    /\ cur.Values = sent.Values

\* the parts of the round trip that do hold
C2_RoundTripButPoaStems ==
  (RoundTripped /\ ValidMap) =>
    /\ cur.ExtStatus = sent.ExtStatus
    /\ cur.Keys = sent.Keys
    /\ cur.Values = sent.Values
    /\ Len(cur.PoaStems) = Len(sent.PoaStems)

\* the permutations of a list
Reorderings(s) ==
  {[i \in 1..Len(s) |-> s[f[i]]] :
     f \in {f \in [1..Len(s) -> 1..Len(s)] : \A i, j \in 1..Len(s) : f[i] = f[j] => i = j}}
Count(s, x) == Cardinality({i \in 1..Len(s) : s[i] = x})

C4_ReconstructionFidelity ==
  (pc = "rebuilt" /\ ~tampered /\ ValidMap) =>
    /\ rebuilt.outcome = "ok"
    /\ \A i \in 1..Len(cur.Keys) :
         StatelessGet(rebuilt.root, cur.Keys[i]) = TreeGet(tree, cur.Keys[i])
    /\ Range(rebuilt.inserted) = {k \in Range(cur.Keys) : k \in DOMAIN tree}

\* the suffix entries SerializeProof is to produce for the keys of one stem:
\* in the order of the keys, the value zero-padded to 32 bytes, nil for an
\* absent value
PaddedValue(v) ==
  IF LenV(v) = 0 THEN NIL
  ELSE [i \in 1..VALUE_LENGTH |-> IF i <= Len(v) THEN v[i] ELSE 0]
RECURSIVE EntriesOfStem(_, _, _)
EntriesOfStem(proof, stem, i) ==
  IF i > Len(proof.Keys) THEN <<>>
  ELSE (IF StemOf(proof.Keys[i]) = stem
        THEN <<[Suffix |-> proof.Keys[i][KEY_LENGTH],
                CurrentValue |-> PaddedValue(proof.Values[i])]>>
        ELSE <<>>) \o EntriesOfStem(proof, stem, i + 1)
StemsIn(proof) == {StemOf(proof.Keys[i]) : i \in 1..Len(proof.Keys)}
GroupedByStem(proof, sd) ==
  /\ Len(sd) = Cardinality(StemsIn(proof))
  /\ \A s \in StemsIn(proof) :
       \E g \in 1..Len(sd) :
         sd[g].Stem = s /\ sd[g].SuffixDiffs = EntriesOfStem(proof, s, 1)
\* the keys of a proof that share a stem are next to each other
StemsAdjacent(proof) ==
  \A i, j \in 1..Len(proof.Keys) :
    (i < j /\ StemOf(proof.Keys[i]) = StemOf(proof.Keys[j]))
      => \A m \in i..j : StemOf(proof.Keys[m]) = StemOf(proof.Keys[i])

\* C5 as stated: for any proof given to SerializeProof the state diff has
\* one StemStateDiff per distinct stem of proof.Keys, holding that stem's
\* suffixes in key order, each with the key's value or none.
C5_GroupingAnyProof == Serialized => GroupedByStem(sent, wire.statediff)

\* C5 amended: the same, for a proof whose keys of one stem are adjacent
\* (as in every proof MakeVerkleMultiProof builds, whose keys are sorted).
C5_GroupingAdjacentStems ==
  (Serialized /\ StemsAdjacent(sent)) => GroupedByStem(sent, wire.statediff)

C5_Witness ==
  /\ Serialized
  /\ StemsAdjacent(sent)
  /\ Len(wire.statediff) = 1
  /\ Len(wire.statediff[1].SuffixDiffs) = 2
  /\ wire.statediff[1].SuffixDiffs[1].CurrentValue # NIL
  /\ wire.statediff[1].SuffixDiffs[2].CurrentValue = NIL

\* C6: when TreeFromProof returns a tree, the insertions consumed exactly
\* the commitments of the proof; a proof with more or fewer gets an error.
C6_CommitmentsConsumed ==
  (pc = "rebuilt" /\ rebuilt.outcome = "ok") => rebuilt.consumed = Len(cur.Cs)

\* C7: TreeFromProof on a proof with more absent-other statuses than
\* proof-of-absence stems, or more statuses than stems, returns an error; it
\* does not crash.
AbsentOthers(proof) ==
  Cardinality({i \in 1..Len(proof.ExtStatus) : proof.ExtStatus[i] % 4 = extStatusAbsentOther})
C7_ExhaustionIsAnError ==
  (/\ pc = "rebuilt"
   /\ \/ AbsentOthers(cur) > Len(cur.PoaStems)
      \/ Len(cur.ExtStatus) > Cardinality(StemsIn(cur)))
    => rebuilt.outcome = "error"

\* C8: a proof returned by MakeVerkleMultiProof has one extension status
\* per distinct stem of the queried keys.
C8_OneStatusPerStem ==
  ((Built \/ LegacyBuilt) /\ ret.outcome = "ok") =>
    Len(ret.proof.ExtStatus) = Cardinality(StemsIn(ret.proof))

\* the paths below the root that the walks for the keys of a list touch
TouchedPaths(t, keys) ==
  UNION {DOMAIN GetCommitmentsAlongPath(t, keys[i]).ByPath : i \in 1..Len(keys)} \ {<<>>}

\* C9: Cs of a returned proof holds the commitments of the distinct paths
\* below the root that the walk touched, none missing or nil, in strictly
\* ascending order of path.
C9_CommitmentsByPath ==
  ((Built \/ LegacyBuilt) /\ ret.outcome = "ok") =>
    LET cs == ret.proof.Cs
        P == TouchedPaths(tree, input)
    IN  /\ Len(cs) = Cardinality(P)
        /\ \A i \in 1..Len(cs) : cs[i] # NilPoint
        /\ {cs[i].at : i \in 1..Len(cs)} = P
        /\ \A i \in 1..Len(cs) : cs[i] = Commitment(tree, cs[i].at)
        /\ \A i \in 1..(Len(cs) - 1) : BytesLess(cs[i].at, cs[i + 1].at)

C9_Witness ==
  /\ pc = "made"
  /\ Len(ret.proof.Cs) >= 4
  /\ \E i \in 1..Len(ret.proof.Cs) : Len(ret.proof.Cs[i].at) = 3

\* C10: in the state diff of a proof built by MakeVerkleMultiProof, on any
\* key list, the suffixes of one StemStateDiff are pairwise distinct.
C10_SuffixesUnique ==
  (pc = "serialized" /\ ~tampered) =>
    \A g \in 1..Len(wire.statediff) :
      \A i, j \in 1..Len(wire.statediff[g].SuffixDiffs) :
        wire.statediff[g].SuffixDiffs[i].Suffix = wire.statediff[g].SuffixDiffs[j].Suffix
          => i = j

\* SerializeProof has been called on a proof and nothing has touched what it
\* returned
SerializeProofReturned == sent # NilProof /\ ~tampered

\* C11: SerializeProof completes on a proof with a value whose length is
\* neither 0 nor 32, shorter or longer, and the suffix entry of that value
\* holds 32 bytes: the value's bytes first, zeros after them; every entry
\* keeps its own bytes.
C11_PaddingAnyLength ==
  SerializeProofReturned =>
    /\ wire.outcome = "ok"
    /\ LET out == KeysValuesOf(wire.statediff).values
       IN  \A i \in 1..Len(sent.Values) :
             LenV(sent.Values[i]) \notin {0, VALUE_LENGTH} =>
               /\ out[i] # NIL
               /\ Len(out[i]) = VALUE_LENGTH
               /\ \A j \in 1..VALUE_LENGTH :
                    out[i][j] = IF j <= Len(sent.Values[i]) THEN sent.Values[i][j] ELSE 0

\* the part that does hold: values no longer than 32 bytes
C11_PaddingShorter ==
  (SerializeProofReturned
     /\ \A i \in 1..Len(sent.Values) : LenV(sent.Values[i]) <= VALUE_LENGTH) =>
    /\ wire.outcome = "ok"
    /\ LET out == KeysValuesOf(wire.statediff).values
       IN  \A i \in 1..Len(sent.Values) :
             LenV(sent.Values[i]) \notin {0, VALUE_LENGTH} =>
               /\ out[i] # NIL
               /\ Len(out[i]) = VALUE_LENGTH
               /\ \A j \in 1..VALUE_LENGTH :
                    out[i][j] = IF j <= Len(sent.Values[i]) THEN sent.Values[i][j] ELSE 0

\* a proof over two distinct stems that share the path of their statuses,
\* one status present and one absent-other, with one proof-of-absence stem
SplitStatusProof(proof) ==
  LET stems == StemsOfKeys(proof.Keys, <<>>)
      es == proof.ExtStatus
  IN  /\ Len(stems) = 2 /\ stems[1] # stems[2]
      /\ Len(es) = 2 /\ Len(proof.PoaStems) = 1
      /\ es[1] \div 8 = es[2] \div 8
      /\ Prefix(stems[1], es[1] \div 8) = Prefix(stems[2], es[1] \div 8)
      /\ {es[1] % 4, es[2] % 4} = {extStatusPresent, extStatusAbsentOther}

\* the loop of TreeFromProof over the extension statuses of the proof in hand
StatusLoop(proof) ==
  AssignStems(proof, StemsOfKeys(proof.Keys, <<>>), 1,
    [stemIndex |-> 1, info |-> <<>>, paths |-> <<>>,
     poas |-> proof.PoaStems, panic |-> "no"])

\* C12: on a proof of a valid tree over two stems of one path, one present
\* and one absent-other, with two extension statuses and one
\* proof-of-absence stem,
\* TreeFromProof handles both statuses, takes the proof-of-absence stem and
\* moves its cursor past both stems, reading past the end of no list.
C12_SplitStatus ==
  (pc = "rebuilt" /\ ~tampered /\ ValidMap /\ SplitStatusProof(cur)) =>
    /\ StatusLoop(cur).panic = "no"
    /\ Len(StatusLoop(cur).paths) = 2
    /\ StatusLoop(cur).poas = <<>>
    /\ StatusLoop(cur).stemIndex = 3
    /\ rebuilt.outcome # "panic"

\* the queried keys of a proof that start with a path, and those of them
\* that carry a value
KeysAt(proof, path) ==
  {i \in 1..Len(proof.Keys) : Prefix(proof.Keys[i], Len(path)) = path}
ValuedKeysAt(proof, path) == {i \in KeysAt(proof, path) : proof.Values[i] # NIL}

\* C13: for a proof of a valid tree, the stem info TreeFromProof builds for
\* a present status holds the (suffix, value) pairs of the queried keys at
\* the status's path that carry a value, has_c1 and has_c2 say whether one
\* of these has a suffix below 128 and from 128 on, and stem is the stem the
\* tree holds at that path, also when none of the queried keys carries a
\* value.
C13_PresentStemInfo ==
  (pc = "rebuilt" /\ ~tampered /\ ValidMap) =>
    \A p \in DOMAIN StatusLoop(cur).info :
      LET si == StatusLoop(cur).info[p]
          V == ValuedKeysAt(cur, p)
      IN  si.stemType = extStatusPresent =>
            /\ DOMAIN si.values = {SuffixOf(cur.Keys[i]) : i \in V}
            /\ \A i \in V : si.values[SuffixOf(cur.Keys[i])] = cur.Values[i]
            /\ si.has_c1 <=> \E i \in V : SuffixOf(cur.Keys[i]) < SUFFIX_SPLIT
            /\ si.has_c2 <=> \E i \in V : SuffixOf(cur.Keys[i]) >= SUFFIX_SPLIT
            /\ StemsUnder(tree, p) = {si.stem}

\* the part that does hold: everything but the stem, and the stem when a
\* queried key at the path carries a value
C13_PresentStemInfoWithValue ==
  (pc = "rebuilt" /\ ~tampered /\ ValidMap) =>
    \A p \in DOMAIN StatusLoop(cur).info :
      LET si == StatusLoop(cur).info[p]
          V == ValuedKeysAt(cur, p)
      IN  si.stemType = extStatusPresent =>
            /\ DOMAIN si.values = {SuffixOf(cur.Keys[i]) : i \in V}
            /\ \A i \in V : si.values[SuffixOf(cur.Keys[i])] = cur.Values[i]
            /\ si.has_c1 <=> \E i \in V : SuffixOf(cur.Keys[i]) < SUFFIX_SPLIT
            /\ si.has_c2 <=> \E i \in V : SuffixOf(cur.Keys[i]) >= SUFFIX_SPLIT
            /\ V # {} => StemsUnder(tree, p) = {si.stem}
            /\ V = {} => si.stem = NIL

====
